---- MODULE Spec2Model ----
(***************************************************************************)
(* Appointment scheduling core of health-hub-backend: the Availability     *)
(* model (slot generation and the availability check), the Appointment     *)
(* model (conflict detection and the lifecycle methods) and the            *)
(* appointment controller (booking, confirmation, cancellation).           *)
(*                                                                         *)
(* Instants are JavaScript Date values: milliseconds, counted here from    *)
(* local midnight of a Monday.  A time string "HH:MM" is the tuple of its  *)
(* four digits <<H1, H2, M1, M2>>; the colon, which sits at the same place *)
(* in every string, is left out.                                           *)
(***************************************************************************)
EXTENDS Integers, Sequences, FiniteSets, TLC

\* ------------------------------------------------------------------ bounds

\* Longest blockedDates list of a schedule.
MaxBlocked == 1
\* Longest customAvailableDates list of a schedule.
MaxCustom == 1
\* Largest number of stored appointments in the model-level specification.
MaxStored == 2
\* Largest number of appointments booked through the controller.
MaxBooked == 2

\* ------------------------------------------------------- program constants

MsPerMinute == 60000
MinutesPerHour == 60
MsPerDay == 24 * MinutesPerHour * MsPerMinute
DefaultSlotDuration == 30
DefaultBufferTime == 0
MinSlotDuration == 15
MaxSlotDuration == 120
SlotGranularity == 15
MaxBufferTime == 60
\* getNeedingReminders looks this many minutes ahead.
ReminderWindowMinutes == 30

NoticeHours == 24

\* --------------------------------------------------------------- Date, time

\* Date.getDate/getMonth/getFullYear taken together: the local calendar day.
DayOf(instant) == instant \div MsPerDay

\* Date.setHours(0, 0, 0, 0): local midnight of the instant's day.
StartOfDay(instant) == DayOf(instant) * MsPerDay

\* Minutes since local midnight, seconds and milliseconds dropped.
MinuteOfDay(instant) == (instant % MsPerDay) \div MsPerMinute

WeekDays == <<"monday", "tuesday", "wednesday", "thursday", "friday",
              "saturday", "sunday">>

\* date.toLocaleDateString('en-US', { weekday: 'long' }).toLowerCase()
DayName(instant) == WeekDays[(DayOf(instant) % 7) + 1]

\* _minutesToTimeString: hours and minutes, each padded to two digits.
MinutesToTimeString(minutes) ==
    LET hours == minutes \div MinutesPerHour
        mins  == minutes % MinutesPerHour
    IN  <<hours \div 10, hours % 10, mins \div 10, mins % 10>>

\* _timeStringToMinutes: split(':').map(Number), hours * 60 + minutes.
TimeStringToMinutes(timeString) ==
    (timeString[1] * 10 + timeString[2]) * MinutesPerHour
        + (timeString[3] * 10 + timeString[4])

\* date.toTimeString().slice(0, 5): the local "HH:MM" of an instant.
TimeStringOf(instant) == MinutesToTimeString(MinuteOfDay(instant))

\* JavaScript string comparison a < b of two "HH:MM" strings: by code unit,
\* left to right.
RECURSIVE StrLessFrom(_, _, _)
StrLessFrom(a, b, i) ==
    IF i > Len(a) \/ i > Len(b) THEN Len(a) < Len(b)
    ELSE IF a[i] # b[i] THEN a[i] < b[i]
    ELSE StrLessFrom(a, b, i + 1)

StrLess(a, b) == StrLessFrom(a, b, 1)
StrGeq(a, b) == ~StrLess(a, b)

\* The time string of an hour and a minute, for writing schedules down.
HM(h, m) == <<h \div 10, h % 10, m \div 10, m % 10>>

\* An instant from a day number, an hour and a minute.
At(day, h, m) == day * MsPerDay + (h * MinutesPerHour + m) * MsPerMinute

\* ------------------------------------------------------- Availability model

\* availabilitySchema.pre('save'): every time range ends after it starts.
ValidTimeSlots(timeSlots) ==
    \A i \in 1..Len(timeSlots) :
        ~StrGeq(timeSlots[i].startTime, timeSlots[i].endTime)

PreSaveOk(a) ==
    /\ \A i \in 1..Len(a.weeklySchedule) :
           ValidTimeSlots(a.weeklySchedule[i].timeSlots)
    /\ \A i \in 1..Len(a.customAvailableDates) :
           ValidTimeSlots(a.customAvailableDates[i].timeSlots)

\* The schema's validators of slotDuration and bufferTime.
SchemaOk(a) ==
    /\ a.slotDuration >= MinSlotDuration
    /\ a.slotDuration <= MaxSlotDuration
    /\ a.slotDuration % SlotGranularity = 0
    /\ a.bufferTime >= 0
    /\ a.bufferTime <= MaxBufferTime

\* Array.prototype.find: the first element of seq at one of the matching
\* places, as a list of one element, or the empty list when find returns
\* undefined.
FindFirst(seq, matching) ==
    IF matching = {} THEN <<>>
    ELSE <<seq[CHOOSE i \in matching : \A j \in matching : i <= j]>>

\* isAvailableAt asking the custom date before the blocked dates.
isAvailableAtCustomFirst(a, dateTime) ==
    LET timeString == TimeStringOf(dateTime)
        isBlocked ==
            \E i \in 1..Len(a.blockedDates) :
                LET blocked == a.blockedDates[i] IN
                /\ DayOf(blocked.date) = DayOf(dateTime)
                /\ (blocked.allDay \/ timeString \in blocked.blockedSlots)
        customDate ==
            FindFirst(a.customAvailableDates,
                      {i \in 1..Len(a.customAvailableDates) :
                          DayOf(a.customAvailableDates[i].date)
                              = DayOf(dateTime)})
        daySchedule ==
            FindFirst(a.weeklySchedule,
                      {i \in 1..Len(a.weeklySchedule) :
                          a.weeklySchedule[i].day = DayName(dateTime)})
        Within(slot) == /\ StrGeq(timeString, slot.startTime)
                        /\ StrLess(timeString, slot.endTime)
    IN  IF customDate # <<>>
        THEN \E i \in 1..Len(customDate[1].timeSlots) :
                 Within(customDate[1].timeSlots[i])
        ELSE IF isBlocked THEN FALSE
        ELSE IF daySchedule = <<>> \/ ~daySchedule[1].isAvailable THEN FALSE
        ELSE \E i \in 1..Len(daySchedule[1].timeSlots) :
                 Within(daySchedule[1].timeSlots[i])

\* isAvailableAt: blocked (all day, or at this time of day) first, then the
\* custom date, then the weekly schedule.
isAvailableAt(a, dateTime) ==
    LET timeString == TimeStringOf(dateTime)
        isBlocked ==
            \E i \in 1..Len(a.blockedDates) :
                LET blocked == a.blockedDates[i] IN
                /\ DayOf(blocked.date) = DayOf(dateTime)
                /\ (blocked.allDay \/ timeString \in blocked.blockedSlots)
        customDate ==
            FindFirst(a.customAvailableDates,
                      {i \in 1..Len(a.customAvailableDates) :
                          DayOf(a.customAvailableDates[i].date)
                              = DayOf(dateTime)})
        daySchedule ==
            FindFirst(a.weeklySchedule,
                      {i \in 1..Len(a.weeklySchedule) :
                          a.weeklySchedule[i].day = DayName(dateTime)})
        Within(slot) == /\ StrGeq(timeString, slot.startTime)
                        /\ StrLess(timeString, slot.endTime)
    IN  IF isBlocked THEN FALSE
        ELSE IF customDate # <<>>
             THEN \E i \in 1..Len(customDate[1].timeSlots) :
                      Within(customDate[1].timeSlots[i])
        ELSE IF daySchedule = <<>> \/ ~daySchedule[1].isAvailable THEN FALSE
        ELSE \E i \in 1..Len(daySchedule[1].timeSlots) :
                 Within(daySchedule[1].timeSlots[i])

\* The mutant of the partial-block test: no slot is ever blocked.
isSlotBlockedNever(a, targetDate, slotTime) == FALSE

\* The partial-block test of the slot loop: some block of the target day
\* that is not all day lists this slot time.
isSlotBlocked(a, targetDate, slotTime) ==
    \E i \in 1..Len(a.blockedDates) :
        LET blocked == a.blockedDates[i] IN
        /\ StartOfDay(blocked.date) = targetDate
        /\ ~blocked.allDay
        /\ slotTime \in blocked.blockedSlots

\* The while loop running while currentTime < endTime: a slot may start
\* before the end of the range and run past it.
RECURSIVE SlotsOfRangeStartFits(_, _, _, _, _)
SlotsOfRangeStartFits(a, targetDate, currentTime, endTime, availableSlots) ==
    IF currentTime < endTime
    THEN LET slotTime == MinutesToTimeString(currentTime) IN
         SlotsOfRangeStartFits(a, targetDate,
                      currentTime + a.slotDuration + a.bufferTime, endTime,
                      IF isSlotBlocked(a, targetDate, slotTime)
                      THEN availableSlots
                      ELSE Append(availableSlots, slotTime))
    ELSE availableSlots

\* The while loop stepping by slotDuration alone, the buffer forgotten.
RECURSIVE SlotsOfRangeNoBuffer(_, _, _, _, _)
SlotsOfRangeNoBuffer(a, targetDate, currentTime, endTime, availableSlots) ==
    IF currentTime + a.slotDuration <= endTime
    THEN LET slotTime == MinutesToTimeString(currentTime) IN
         SlotsOfRangeNoBuffer(a, targetDate,
                      currentTime + a.slotDuration, endTime,
                      IF isSlotBlocked(a, targetDate, slotTime)
                      THEN availableSlots
                      ELSE Append(availableSlots, slotTime))
    ELSE availableSlots

\* The while loop over one range: from currentTime, step by
\* slotDuration + bufferTime, while a whole slot still fits.
RECURSIVE SlotsOfRange(_, _, _, _, _)
SlotsOfRange(a, targetDate, currentTime, endTime, availableSlots) ==
    IF currentTime + a.slotDuration <= endTime
    THEN LET slotTime == MinutesToTimeString(currentTime) IN
         SlotsOfRange(a, targetDate,
                      currentTime + a.slotDuration + a.bufferTime, endTime,
                      IF isSlotBlocked(a, targetDate, slotTime)
                      THEN availableSlots
                      ELSE Append(availableSlots, slotTime))
    ELSE availableSlots

\* The for loop over the ranges, in their stored order.
RECURSIVE SlotsOfRanges(_, _, _, _, _)
SlotsOfRanges(a, targetDate, timeSlots, i, availableSlots) ==
    IF i > Len(timeSlots) THEN availableSlots
    ELSE SlotsOfRanges(a, targetDate, timeSlots, i + 1,
             SlotsOfRange(a, targetDate,
                          TimeStringToMinutes(timeSlots[i].startTime),
                          TimeStringToMinutes(timeSlots[i].endTime),
                          availableSlots))

\* getAvailableSlotsForDate
getAvailableSlotsForDate(a, date) ==
    LET targetDate == StartOfDay(date)
        dayBlocked ==
            \E i \in 1..Len(a.blockedDates) :
                /\ StartOfDay(a.blockedDates[i].date) = targetDate
                /\ a.blockedDates[i].allDay
        customDate ==
            FindFirst(a.customAvailableDates,
                      {i \in 1..Len(a.customAvailableDates) :
                          StartOfDay(a.customAvailableDates[i].date)
                              = targetDate})
        daySchedule ==
            FindFirst(a.weeklySchedule,
                      {i \in 1..Len(a.weeklySchedule) :
                          a.weeklySchedule[i].day = DayName(targetDate)})
    IN  IF dayBlocked THEN <<>>
        ELSE IF customDate # <<>>
             THEN SlotsOfRanges(a, targetDate, customDate[1].timeSlots, 1,
                                <<>>)
        ELSE IF daySchedule = <<>> \/ ~daySchedule[1].isAvailable THEN <<>>
        ELSE SlotsOfRanges(a, targetDate, daySchedule[1].timeSlots, 1, <<>>)

\* blockDate: push the block; an all-day block keeps no slot list.
blockDate(a, date, allDay, slots) ==
    [a EXCEPT !.blockedDates =
        Append(@, [date |-> date, allDay |-> allDay,
                   blockedSlots |-> IF allDay THEN {} ELSE slots])]

\* addCustomDate: push the override.
addCustomDate(a, date, timeSlots) ==
    [a EXCEPT !.customAvailableDates =
        Append(@, [date |-> date, timeSlots |-> timeSlots])]

\* createDefault: Monday to Friday 09:00-12:00 and 14:00-17:00, weekend off.
DefaultRanges == <<[startTime |-> HM(9, 0), endTime |-> HM(12, 0)],
                   [startTime |-> HM(14, 0), endTime |-> HM(17, 0)]>>

createDefault ==
    [weeklySchedule |->
        [i \in 1..7 |->
            IF i <= 5
            THEN [day |-> WeekDays[i], isAvailable |-> TRUE,
                  timeSlots |-> DefaultRanges]
            ELSE [day |-> WeekDays[i], isAvailable |-> FALSE,
                  timeSlots |-> <<>>]],
     slotDuration |-> DefaultSlotDuration,
     bufferTime |-> DefaultBufferTime,
     blockedDates |-> <<>>,
     customAvailableDates |-> <<>>]

\* ------------------------------------------------------- Appointment model

Statuses == {"pending", "confirmed", "in-progress", "completed", "cancelled",
             "no-show"}

\* The statuses hasConflict's query selects.
ActiveStatuses == {"pending", "confirmed", "in-progress"}

\* A stored appointment document as Appointment.create leaves it: status
\* pending, reminderSent false, no lifecycle stamp.  An unset field is the
\* empty list, a set one the list of its value.
NewAppointment(patientId, doctorId, appointmentDate, duration, consultationType) ==
    [patientId |-> patientId, doctorId |-> doctorId,
     appointmentDate |-> appointmentDate, duration |-> duration,
     consultationType |-> consultationType, status |-> "pending",
     confirmedAt |-> <<>>, confirmedBy |-> <<>>,
     cancelledAt |-> <<>>, cancelledBy |-> <<>>, cancellationReason |-> <<>>,
     completedAt |-> <<>>, callStartedAt |-> <<>>,
     callEndedAt |-> <<>>, callDuration |-> <<>>,
     reminderSent |-> FALSE, reminderSentAt |-> <<>>, paymentId |-> <<>>]

\* The first $or branch, by its comment "new appointment starts during
\* existing appointment": appointmentDate <= startTime and
\* appointmentDate + duration * 60000 >= startTime.
StartsDuringExisting(x, startTime, endTime) ==
    /\ x.appointmentDate <= startTime
    /\ x.appointmentDate + x.duration * MsPerMinute >= startTime

\* The second $or branch, "new appointment ends during existing appointment":
\* appointmentDate < endTime and appointmentDate + duration * 60000 > startTime.
EndsDuringExisting(x, startTime, endTime) ==
    /\ x.appointmentDate < endTime
    /\ x.appointmentDate + x.duration * MsPerMinute > startTime

\* The third $or branch, "existing appointment is completely within new
\* appointment": startTime <= appointmentDate < endTime.
ExistingWithinNew(x, startTime, endTime) ==
    /\ x.appointmentDate >= startTime
    /\ x.appointmentDate < endTime

\* hasConflict with its status list cut to the confirmed appointments.
hasConflictConfirmedOnly(store, doctorId, appointmentDate, duration, excludeId) ==
    LET startTime == appointmentDate
        endTime   == startTime + duration * MsPerMinute
    IN  \E i \in 1..Len(store) :
            /\ store[i].doctorId = doctorId
            /\ store[i].status = "confirmed"
            /\ \/ StartsDuringExisting(store[i], startTime, endTime)
               \/ EndsDuringExisting(store[i], startTime, endTime)
               \/ ExistingWithinNew(store[i], startTime, endTime)
            /\ (excludeId # 0 => i # excludeId)

\* hasConflict without the status and doctor conditions of its query.
hasConflictUnscoped(store, doctorId, appointmentDate, duration, excludeId) ==
    LET startTime == appointmentDate
        endTime   == startTime + duration * MsPerMinute
    IN  \E i \in 1..Len(store) :
            /\ \/ StartsDuringExisting(store[i], startTime, endTime)
               \/ EndsDuringExisting(store[i], startTime, endTime)
               \/ ExistingWithinNew(store[i], startTime, endTime)
            /\ (excludeId # 0 => i # excludeId)

\* hasConflict: some stored appointment of the doctor, with an active status,
\* matches one of the three $or branches; an appointment's _id is its place
\* in the store, and excludeId 0 is the default null.
hasConflict(store, doctorId, appointmentDate, duration, excludeId) ==
    LET startTime == appointmentDate
        endTime   == startTime + duration * MsPerMinute
        conflicts ==
            {i \in 1..Len(store) :
                /\ store[i].doctorId = doctorId
                /\ store[i].status \in ActiveStatuses
                /\ \/ StartsDuringExisting(store[i], startTime, endTime)
                   \/ EndsDuringExisting(store[i], startTime, endTime)
                   \/ ExistingWithinNew(store[i], startTime, endTime)
                /\ (excludeId # 0 => i # excludeId)}
    IN  Cardinality(conflicts) > 0

\* ------------------------------------------------------------------- state

VARIABLES
    availability,   \* the Availability document of each doctor
    appointments,   \* the Appointment collection, in insertion order
    result,         \* what the last call returned
    now,            \* the clock, new Date()
    doctors,        \* the Doctor documents
    patients,       \* the Patient documents
    handlers        \* the requests being handled, each at an await

vars == <<availability, appointments, result, now, doctors, patients, handlers>>

\* What the model-level specifications leave alone.
controller == <<now, doctors, patients, handlers>>

Doctors == {"d1", "d2"}
Patients == {"p1", "p2"}

NoResult == [op |-> "none"]

\* The Doctor documents: d1 verified and offering video and in-person
\* consultations, d2 still waiting for verification; no appointment counted.
InitDoctors ==
    [d \in Doctors |->
        [verificationStatus |-> IF d = "d1" THEN "verified" ELSE "pending",
         consultationTypes |-> {"video", "in-person"},
         totalAppointments |-> 0]]

InitPatients == [p \in Patients |-> [totalAppointments |-> 0]]

\* A handler that has no request yet: nothing loaded.
Idle ==
    [pc |-> "idle", user |-> "", doctorId |-> "", appointmentDate |-> 0,
     consultationType |-> "", patient |-> <<>>, doctor |-> <<>>,
     availability |-> <<>>]

InitController ==
    /\ now = At(0, 8, 0)
    /\ doctors = InitDoctors
    /\ patients = InitPatients
    /\ handlers = <<>>

\* ------------------------------------------- schedules: the model's calls

\* The doctor whose schedule the schedule specification varies.
TheDoctor == "d1"

\* Times of day a schedule's ranges start and end at.
RangeTimes == {HM(9, 0), HM(10, 0), HM(12, 0)}

\* Every pair of range times as a time range, ill-ordered ones included.
RangeCandidates == {[startTime |-> s, endTime |-> e] : s, e \in RangeTimes}

\* The lists of at most two time ranges.
RangeListCandidates ==
    {<<>>} \cup {<<r>> : r \in RangeCandidates}
           \cup {<<r1, r2>> : r1, r2 \in RangeCandidates}

SlotDurationCandidates == {30, 40, 45, 60}
BufferTimeCandidates == {0, 10}

\* A schedule with a Monday entry only: Tuesday has no entry at all.
ScheduleCandidates ==
    {[weeklySchedule |-> <<[day |-> "monday", isAvailable |-> av,
                            timeSlots |-> ts]>>,
      slotDuration |-> sd, bufferTime |-> bt,
      blockedDates |-> <<>>, customAvailableDates |-> <<>>] :
        av \in BOOLEAN, ts \in RangeListCandidates,
        sd \in SlotDurationCandidates, bt \in BufferTimeCandidates}

\* Dates handed to blockDate and addCustomDate: a Monday and a Tuesday, one
\* of them with a time of day.
ScheduleDates == {At(0, 0, 0), At(1, 8, 0)}
BlockedSlotChoices == {{HM(10, 0)}}
CustomRangeLists == {<<>>, <<[startTime |-> HM(10, 0), endTime |-> HM(12, 0)]>>,
                     <<[startTime |-> HM(12, 0), endTime |-> HM(10, 0)]>>}

\* Dates asked of getAvailableSlotsForDate and instants asked of isAvailableAt.
SlotDates == {At(0, 0, 0), At(1, 10, 0)}
CheckInstants == {At(0, 9, 0), At(0, 10, 0) + 30000, At(0, 12, 0),
                  At(1, 10, 0), At(1, 11, 45)}

InitSchedule ==
    /\ \E a \in ScheduleCandidates :
          /\ SchemaOk(a)
          /\ PreSaveOk(a)
          /\ availability = [d \in Doctors |->
                                IF d = TheDoctor THEN a ELSE createDefault]
    /\ appointments = <<>>
    /\ result = NoResult
    /\ InitController

\* availability.blockDate(date, reason, allDay, slots), saved when the
\* pre-save hook passes.
BlockDate(date, allDay, slots) ==
    LET a == blockDate(availability[TheDoctor], date, allDay, slots) IN
    /\ Len(availability[TheDoctor].blockedDates) < MaxBlocked
    /\ SchemaOk(a) /\ PreSaveOk(a)
    /\ availability' = [availability EXCEPT ![TheDoctor] = a]
    /\ result' = NoResult
    /\ UNCHANGED <<appointments, controller>>

\* availability.addCustomDate(date, timeSlots), saved when the pre-save hook
\* passes.
AddCustomDate(date, timeSlots) ==
    LET a == addCustomDate(availability[TheDoctor], date, timeSlots) IN
    /\ Len(availability[TheDoctor].customAvailableDates) < MaxCustom
    /\ SchemaOk(a) /\ PreSaveOk(a)
    /\ availability' = [availability EXCEPT ![TheDoctor] = a]
    /\ result' = NoResult
    /\ UNCHANGED <<appointments, controller>>

\* availability.getAvailableSlotsForDate(date)
CallGetAvailableSlotsForDate(date) ==
    /\ result' = [op |-> "getAvailableSlotsForDate", date |-> date,
                  slots |-> getAvailableSlotsForDate(availability[TheDoctor],
                                                     date)]
    /\ UNCHANGED <<availability, appointments, controller>>

\* availability.isAvailableAt(dateTime)
CallIsAvailableAt(dateTime) ==
    /\ result' = [op |-> "isAvailableAt", dateTime |-> dateTime,
                  value |-> isAvailableAt(availability[TheDoctor], dateTime)]
    /\ UNCHANGED <<availability, appointments, controller>>

NextSchedule ==
    \/ \E date \in ScheduleDates :
          \/ BlockDate(date, TRUE, {})
          \/ \E slots \in BlockedSlotChoices : BlockDate(date, FALSE, slots)
    \/ \E date \in ScheduleDates, timeSlots \in CustomRangeLists :
          AddCustomDate(date, timeSlots)
    \/ \E date \in SlotDates : CallGetAvailableSlotsForDate(date)
    \/ \E dateTime \in CheckInstants : CallIsAvailableAt(dateTime)

SpecSchedule == InitSchedule /\ [][NextSchedule]_vars

\* --------------------------------------- appointments: the model's calls

\* Starts and durations of the stored appointments and of the candidates:
\* with these, two intervals can be apart, touch at either end, cross at
\* either end, or lie one inside the other.
ConflictStarts == {At(1, 9, 0), At(1, 9, 15)}
ConflictDurations == {15, 45}

StoredCandidates ==
    {[NewAppointment("p1", d, t, dur, "video") EXCEPT !.status = st] :
        d \in Doctors, t \in ConflictStarts, dur \in ConflictDurations,
        st \in Statuses}

InitConflict ==
    /\ availability = [d \in Doctors |-> createDefault]
    /\ \E n \in 0..MaxStored :
          appointments \in [1..n -> StoredCandidates]
    /\ result = NoResult
    /\ InitController

\* Appointment.hasConflict(doctorId, appointmentDate, duration)
CallHasConflict(doctorId, appointmentDate, duration) ==
    /\ result' = [op |-> "hasConflict", doctorId |-> doctorId,
                  appointmentDate |-> appointmentDate,
                  duration |-> duration,
                  value |-> hasConflict(appointments, doctorId,
                                        appointmentDate, duration, 0)]
    /\ UNCHANGED <<availability, appointments, controller>>

NextConflict ==
    \E appointmentDate \in ConflictStarts, duration \in ConflictDurations :
        CallHasConflict(TheDoctor, appointmentDate, duration)

SpecConflict == InitConflict /\ [][NextConflict]_vars

\* ------------------------------------------------- appointment controller

\* A response: the HTTP status and the message of the branch that sent it.
Response(status, message) == [status |-> status, message |-> message]

\* What a bookAppointment request asked for and the response it got.
BookResult(user, doctorId, appointmentDate, consultationType, response) ==
    [op |-> "bookAppointment", user |-> user, doctorId |-> doctorId,
     appointmentDate |-> appointmentDate,
     consultationType |-> consultationType, response |-> response]

\* bookAppointment after the doctor is loaded: verified, offers the
\* consultation type, and the date is after new Date(); "" when all pass.
BookDoctorError(doctor, consultationType, appointmentDate, clock) ==
    IF doctor.verificationStatus # "verified" THEN "Doctor is not verified"
    ELSE IF consultationType \notin doctor.consultationTypes
         THEN "Doctor does not offer " \o consultationType \o " consultations"
    ELSE IF appointmentDate <= clock
         THEN "Appointment date must be in the future"
    ELSE ""

\* bookAppointment's availability check.
BookAvailabilityError(a, appointmentDate) ==
    IF ~isAvailableAt(a, appointmentDate)
    THEN "Doctor is not available at this time"
    ELSE ""

\* bookAppointment with the conflict check left out.
BookConflictErrorSkipped(store, a, doctorId, appointmentDate) == ""

\* bookAppointment's conflict check, with the schedule's slotDuration as the
\* candidate's duration.
BookConflictError(store, a, doctorId, appointmentDate) ==
    IF hasConflict(store, doctorId, appointmentDate, a.slotDuration, 0)
    THEN "This time slot is already booked. Please choose another time."
    ELSE ""

\* The appointmentDate validator of a new document: after new Date().
CreateValid(appointmentDate, clock) == appointmentDate > clock

\* The mutant of incrementAppointmentCount: the count is left as loaded.
incrementAppointmentCountSkipped(loaded) == loaded

\* incrementAppointmentCount on a loaded document: the loaded count plus one
\* is what save() writes.
incrementAppointmentCount(loaded) ==
    [loaded EXCEPT !.totalAppointments = @ + 1]

\* The mutant of hoursUntilAppointment: the hours rounded up.
hoursUntilAppointmentRoundedUp(x, clock) ==
    -((clock - x.appointmentDate) \div (MinutesPerHour * MsPerMinute))

\* hoursUntilAppointment: Math.floor(diff / (1000 * 60 * 60)).
hoursUntilAppointment(x, clock) ==
    (x.appointmentDate - clock) \div (MinutesPerHour * MsPerMinute)

\* The mutant of canBeCancelled: the notice alone decides.
canBeCancelledAnyStatus(x, clock, hoursBeforeLimit) ==
    hoursUntilAppointment(x, clock) >= hoursBeforeLimit

\* canBeCancelled(hoursBeforeLimit)
canBeCancelled(x, clock, hoursBeforeLimit) ==
    /\ hoursUntilAppointment(x, clock) >= hoursBeforeLimit
    /\ x.status \in {"pending", "confirmed"}

\* appointment.confirm(userId)
confirm(x, userId, clock) ==
    [x EXCEPT !.status = "confirmed", !.confirmedAt = <<clock>>,
              !.confirmedBy = <<userId>>]

\* The setter of a String path declared with trim: true, on the reasons the
\* requests carry: the reason made of a blank becomes the empty string, the
\* others have no blank at either end and stay as they are.
Trim(str) == IF str = " " THEN "" ELSE str

\* appointment.cancel(userId, reason): the assignment to cancellationReason
\* goes through the path's trim setter.
cancel(x, userId, reason, clock) ==
    [x EXCEPT !.status = "cancelled", !.cancelledAt = <<clock>>,
              !.cancelledBy = <<userId>>,
              !.cancellationReason = <<Trim(reason)>>]

\* appointment.startConsultation(): a video consultation gets callStartedAt.
startConsultation(x, clock) ==
    [x EXCEPT !.status = "in-progress",
              !.callStartedAt = IF x.consultationType = "video"
                                THEN <<clock>> ELSE @]

\* appointment.complete(): a video consultation whose call was started gets
\* callEndedAt and callDuration, the seconds between the two.
complete(x, clock) ==
    LET call == x.consultationType = "video" /\ x.callStartedAt # <<>> IN
    [x EXCEPT !.status = "completed", !.completedAt = <<clock>>,
              !.callEndedAt = IF call THEN <<clock>> ELSE @,
              !.callDuration = IF call
                               THEN <<(clock - x.callStartedAt[1]) \div 1000>>
                               ELSE @]

\* appointment.markNoShow()
markNoShow(x) == [x EXCEPT !.status = "no-show"]

\* appointment.markReminderSent()
markReminderSent(x, clock) ==
    [x EXCEPT !.reminderSent = TRUE, !.reminderSentAt = <<clock>>]

\* The mutant of getNeedingReminders: the query has no reminderSent clause.
getNeedingRemindersAgain(store, clock) ==
    LET Due(id) ==
            /\ store[id].status \in {"pending", "confirmed"}
            /\ store[id].appointmentDate >= clock
            /\ store[id].appointmentDate
                   <= clock + ReminderWindowMinutes * MsPerMinute
    IN  SelectSeq([i \in 1..Len(store) |-> i], Due)

\* Appointment.getNeedingReminders(): the ids of the pending and confirmed
\* appointments with reminderSent false that begin between now and thirty
\* minutes from now, both ends included.
getNeedingReminders(store, clock) ==
    LET Due(id) ==
            /\ store[id].status \in {"pending", "confirmed"}
            /\ store[id].reminderSent = FALSE
            /\ store[id].appointmentDate >= clock
            /\ store[id].appointmentDate
                   <= clock + ReminderWindowMinutes * MsPerMinute
    IN  SelectSeq([i \in 1..Len(store) |-> i], Due)

\* ---------------------------------------- requests handled one at a time

\* What a booking request may ask for: a past instant, three instants inside
\* the Tuesday morning range (two of them a quarter of an hour apart, two
\* half an hour apart), an instant a quarter of an hour before that range
\* ends, and an instant outside every range.
BookDates == {At(0, 7, 0), At(1, 9, 0), At(1, 9, 15), At(1, 9, 30),
              At(1, 11, 45), At(1, 13, 0)}
BookUsers == {"p1"}

\* The booking requests: a video consultation with the verified doctor at each
\* of the instants, a consultation type that doctor does not offer, at an
\* instant ahead and at one that is past, and the doctor who is not verified.
BookRequests ==
    {[doctorId |-> "d1", appointmentDate |-> t, consultationType |-> "video"] :
        t \in BookDates}
    \cup {[doctorId |-> "d1", appointmentDate |-> At(1, 9, 0),
           consultationType |-> "chat"],
          [doctorId |-> "d1", appointmentDate |-> At(0, 7, 0),
           consultationType |-> "chat"],
          [doctorId |-> "d2", appointmentDate |-> At(1, 9, 0),
           consultationType |-> "video"]}

\* Who asks for a cancellation, the patient of the appointments or another
\* one, and the reasons given.
CancelUsers == {"p1", "p2"}
Reasons == {"", "changed plans"}

\* bookAppointment, from the request to the response, with no other request
\* in between.
BookAppointment(user, doctorId, appointmentDate, consultationType) ==
    LET patient == patients[user]
        doctor == doctors[doctorId]
        a == availability[doctorId]
        e1 == BookDoctorError(doctor, consultationType, appointmentDate, now)
        e2 == BookAvailabilityError(a, appointmentDate)
        e3 == BookConflictError(appointments, a, doctorId, appointmentDate)
        error == IF e1 # "" THEN e1 ELSE IF e2 # "" THEN e2 ELSE e3
    IN  /\ IF error # ""
           THEN /\ result' = BookResult(user, doctorId, appointmentDate,
                                        consultationType,
                                        Response(400, error))
                /\ UNCHANGED <<appointments, patients, doctors>>
           ELSE /\ Len(appointments) < MaxBooked
                /\ CreateValid(appointmentDate, now)
                /\ appointments' =
                       Append(appointments,
                              NewAppointment(user, doctorId, appointmentDate,
                                             a.slotDuration, consultationType))
                /\ patients' = [patients EXCEPT
                                   ![user] = incrementAppointmentCount(patient)]
                /\ doctors' = [doctors EXCEPT
                                  ![doctorId] = incrementAppointmentCount(doctor)]
                /\ result' = BookResult(user, doctorId, appointmentDate,
                                        consultationType,
                                        Response(201, "Appointment booked successfully"))
        /\ UNCHANGED <<availability, now, handlers>>

\* confirmAppointment, by the doctor user, in one piece.
ConfirmAppointment(user, id) ==
    /\ id \in 1..Len(appointments)
    /\ IF user \notin Doctors \/ appointments[id].doctorId # user
       THEN /\ result' = [op |-> "confirmAppointment",
                          response |-> Response(403, "Not authorized")]
            /\ UNCHANGED appointments
       ELSE IF appointments[id].status # "pending"
       THEN /\ result' = [op |-> "confirmAppointment",
                          response |-> Response(400, "Cannot confirm appointment with status: " \o appointments[id].status)]
            /\ UNCHANGED appointments
       ELSE /\ appointments' = [appointments EXCEPT
                                   ![id] = confirm(@, user, now)]
            /\ result' = [op |-> "confirmAppointment",
                          response |-> Response(200, "Appointment confirmed")]
    /\ UNCHANGED <<availability, now, doctors, patients, handlers>>

\* cancelAppointment, by a patient or doctor user, in one piece.
CancelAppointment(user, id, reason) ==
    /\ id \in 1..Len(appointments)
    /\ IF reason = ""
       THEN /\ result' = [op |-> "cancelAppointment",
                          response |-> Response(400, "Cancellation reason is required")]
            /\ UNCHANGED appointments
       ELSE IF appointments[id].patientId # user
                  /\ appointments[id].doctorId # user
       THEN /\ result' = [op |-> "cancelAppointment",
                          response |-> Response(403, "Not authorized to cancel this appointment")]
            /\ UNCHANGED appointments
       ELSE IF ~canBeCancelled(appointments[id], now, NoticeHours)
       THEN /\ result' = [op |-> "cancelAppointment",
                          response |-> Response(400, "Appointment can only be cancelled at least 24 hours before the scheduled time")]
            /\ UNCHANGED appointments
       ELSE /\ appointments' = [appointments EXCEPT
                                   ![id] = cancel(@, user, reason, now)]
            /\ result' = [op |-> "cancelAppointment",
                          response |-> Response(200, "Appointment cancelled successfully")]
    /\ UNCHANGED <<availability, now, doctors, patients, handlers>>

\* The mutant of paystackWebhook: the appointment is confirmed whatever its
\* status.
PaystackWebhookAnyStatus(id) ==
    /\ id \in 1..Len(appointments)
    /\ appointments' =
           [appointments EXCEPT ![id] = confirm(@, @.patientId, now)]
    /\ result' = [op |-> "paystackWebhook", response |-> Response(200, "")]
    /\ UNCHANGED <<availability, now, doctors, patients, handlers>>

\* paystackWebhook for charge.success on a payment that names the
\* appointment: a pending appointment is confirmed in its patient's name.
PaystackWebhook(id) ==
    /\ id \in 1..Len(appointments)
    /\ appointments' =
           [appointments EXCEPT
               ![id] = IF @.status = "pending"
                       THEN confirm(@, @.patientId, now) ELSE @]
    /\ result' = [op |-> "paystackWebhook", response |-> Response(200, "")]
    /\ UNCHANGED <<availability, now, doctors, patients, handlers>>

\* The dates getAvailableSlots is asked about: the Tuesday the bookings are
\* for, with a time of day, and the Wednesday after it.
SlotQueryDates == {At(1, 8, 0), At(2, 0, 0)}

\* The mutant of getAvailableSlots: the handler counts the request on the
\* doctor document.
GetAvailableSlotsCounting(doctorId, date) ==
    /\ result' = [op |-> "getAvailableSlots", doctorId |-> doctorId,
                  date |-> date, response |-> Response(200, "")]
    /\ doctors' = [doctors EXCEPT ![doctorId].totalAppointments = @ + 1]
    /\ UNCHANGED <<availability, appointments, now, patients, handlers>>

\* getAvailableSlots: the slots of the date that no pending, confirmed or
\* in-progress appointment of the doctor starts at.
GetAvailableSlots(doctorId, date) ==
    LET allSlots == getAvailableSlotsForDate(availability[doctorId], date)
        startOfDay == StartOfDay(date)
        endOfDay == StartOfDay(date) + MsPerDay - 1
        bookedAppointments ==
            {i \in 1..Len(appointments) :
                /\ appointments[i].doctorId = doctorId
                /\ appointments[i].appointmentDate >= startOfDay
                /\ appointments[i].appointmentDate <= endOfDay
                /\ appointments[i].status \in ActiveStatuses}
        bookedTimes == {TimeStringOf(appointments[i].appointmentDate) :
                           i \in bookedAppointments}
        availableSlots == SelectSeq(allSlots, LAMBDA slot : slot \notin bookedTimes)
    IN  /\ result' = [op |-> "getAvailableSlots", doctorId |-> doctorId,
                      date |-> date,
                      response |-> Response(200, ""),
                      totalSlots |-> Len(allSlots),
                      availableSlots |-> Len(availableSlots),
                      slots |-> availableSlots]
        /\ UNCHANGED <<availability, appointments, now, doctors, patients,
                       handlers>>

InitSeq ==
    /\ availability = [d \in Doctors |-> createDefault]
    /\ appointments = <<>>
    /\ result = NoResult
    /\ InitController

NextSeq ==
    \/ \E user \in BookUsers, req \in BookRequests :
          BookAppointment(user, req.doctorId, req.appointmentDate,
                          req.consultationType)
    \/ \E user \in Doctors, id \in 1..MaxBooked : ConfirmAppointment(user, id)
    \/ \E user \in CancelUsers, id \in 1..MaxBooked, reason \in Reasons :
          CancelAppointment(user, id, reason)
    \/ \E id \in 1..MaxBooked : PaystackWebhook(id)
    \/ \E date \in SlotQueryDates : GetAvailableSlots(TheDoctor, date)

SpecSeq == InitSeq /\ [][NextSeq]_vars

\* ---------------------------------------------- an appointment's lifecycle

\* The instants of the clock: 25 hours before the appointment, 24 hours
\* before it to the millisecond, one millisecond later, 20 hours before it,
\* and an hour after it began.
LifeClocks == {At(0, 8, 0), At(0, 9, 0), At(0, 9, 0) + 1, At(0, 13, 0),
               At(1, 10, 0)}

\* The consultation types of the appointments: one with a call, one without.
LifeTypes == {"video", "in-person"}

\* Who asks for a cancellation: the patient, the doctor, another patient and
\* a user with neither a Patient nor a Doctor document.
LifeCancelUsers == {"p1", "d1", "p2", "admin"}

\* The reasons given for a cancellation: none, a blank, and a sentence.
LifeReasons == {"", " ", "changed plans"}

\* One appointment of p1 with d1 for Tuesday at nine, as bookAppointment left
\* it and counted on both documents.
InitLife ==
    /\ availability = [d \in Doctors |-> createDefault]
    /\ \E consultationType \in LifeTypes :
          appointments = <<NewAppointment("p1", "d1", At(1, 9, 0),
                                          DefaultSlotDuration,
                                          consultationType)>>
    /\ doctors = [InitDoctors EXCEPT !["d1"].totalAppointments = @ + 1]
    /\ patients = [InitPatients EXCEPT !["p1"].totalAppointments = @ + 1]
    /\ result = NoResult
    /\ now = At(0, 8, 0)
    /\ handlers = <<>>

\* Time passes.
Tick(clock) ==
    /\ clock > now
    /\ now' = clock
    /\ UNCHANGED <<availability, appointments, result, doctors, patients,
                   handlers>>

\* appointment.startConsultation() on a loaded appointment.
CallStartConsultation(id) ==
    /\ id \in 1..Len(appointments)
    /\ appointments' = [appointments EXCEPT ![id] = startConsultation(@, now)]
    /\ result' = [op |-> "startConsultation", id |-> id]
    /\ UNCHANGED <<availability, now, doctors, patients, handlers>>

\* appointment.complete() on a loaded appointment.
CallComplete(id) ==
    /\ id \in 1..Len(appointments)
    /\ appointments' = [appointments EXCEPT ![id] = complete(@, now)]
    /\ result' = [op |-> "complete", id |-> id]
    /\ UNCHANGED <<availability, now, doctors, patients, handlers>>

\* appointment.markNoShow() on a loaded appointment.
CallMarkNoShow(id) ==
    /\ id \in 1..Len(appointments)
    /\ appointments' = [appointments EXCEPT ![id] = markNoShow(@)]
    /\ result' = [op |-> "markNoShow", id |-> id]
    /\ UNCHANGED <<availability, now, doctors, patients, handlers>>

NextLife ==
    \/ \E clock \in LifeClocks : Tick(clock)
    \/ \E user \in Doctors, id \in DOMAIN appointments : ConfirmAppointment(user, id)
    \/ \E user \in LifeCancelUsers, id \in DOMAIN appointments,
          reason \in LifeReasons :
          CancelAppointment(user, id, reason)
    \/ \E id \in DOMAIN appointments : PaystackWebhook(id)
    \/ \E id \in DOMAIN appointments : CallStartConsultation(id)
    \/ \E id \in DOMAIN appointments : CallComplete(id)
    \/ \E id \in DOMAIN appointments : CallMarkNoShow(id)

SpecLifecycle == InitLife /\ [][NextLife]_vars

\* ------------------------------------------------- the reminder sweep

\* The instants of the clock on the Tuesday of the appointments: forty
\* minutes before the first, thirty minutes before it to the millisecond,
\* thirty minutes before the second, the start of the first, and ten minutes
\* into it.
ReminderClocks == {At(1, 8, 20), At(1, 8, 30), At(1, 8, 45), At(1, 9, 0),
                   At(1, 9, 10)}

\* Two pending appointments of p1 with d1, a quarter of an hour apart.
InitReminder ==
    /\ availability = [d \in Doctors |-> createDefault]
    /\ appointments = <<NewAppointment("p1", "d1", At(1, 9, 0),
                                       DefaultSlotDuration, "video"),
                        NewAppointment("p1", "d1", At(1, 9, 15),
                                       DefaultSlotDuration, "video")>>
    /\ result = NoResult
    /\ InitController

\* The sweep's query: Appointment.getNeedingReminders().
CallGetNeedingReminders ==
    /\ result' = [op |-> "getNeedingReminders",
                  ids |-> getNeedingReminders(appointments, now)]
    /\ UNCHANGED <<availability, appointments, controller>>

\* The sweep's loop: markReminderSent() on the next appointment the query
\* returned; save() writes reminderSent and reminderSentAt only.
CallMarkReminderSent ==
    /\ result.op \in {"getNeedingReminders", "markReminderSent"}
    /\ result.ids # <<>>
    /\ LET id == Head(result.ids)
           doc == markReminderSent(appointments[id], now)
       IN  appointments' =
               [appointments EXCEPT
                   ![id].reminderSent = doc.reminderSent,
                   ![id].reminderSentAt = doc.reminderSentAt]
    /\ result' = [op |-> "markReminderSent", id |-> Head(result.ids),
                  ids |-> Tail(result.ids)]
    /\ UNCHANGED <<availability, controller>>

NextReminder ==
    \/ \E clock \in ReminderClocks : Tick(clock)
    \/ \E id \in DOMAIN appointments : ConfirmAppointment("d1", id)
    \/ \E id \in DOMAIN appointments :
          CancelAppointment("p1", id, "changed plans")
    \/ CallGetNeedingReminders
    \/ CallMarkReminderSent

SpecReminder == InitReminder /\ [][NextReminder]_vars

\* ------------------------------------- requests handled at the same time

MaxRequests == 2

\* What the concurrent booking requests ask for: two instants a quarter of
\* an hour apart inside the Tuesday morning range, one an hour after the
\* first, and one outside every range.
ConcurrentDates == {At(1, 9, 0), At(1, 9, 15), At(1, 10, 0), At(1, 13, 0)}
ConcurrentTypes == {"video"}

\* The handler r sends its response and is finished.
Respond(r, status, message) ==
    /\ result' = BookResult(handlers[r].user, handlers[r].doctorId,
                            handlers[r].appointmentDate,
                            handlers[r].consultationType,
                            Response(status, message))
    /\ handlers' = [handlers EXCEPT ![r].pc = "done"]

\* bookAppointment is entered with a request that has every required field.
ReceiveBooking(r, user, doctorId, appointmentDate, consultationType) ==
    /\ handlers[r].pc = "idle"
    /\ handlers' = [handlers EXCEPT
                       ![r] = [@ EXCEPT !.pc = "findPatient",
                                        !.user = user,
                                        !.doctorId = doctorId,
                                        !.appointmentDate = appointmentDate,
                                        !.consultationType = consultationType]]
    /\ UNCHANGED <<availability, appointments, result, now, doctors, patients>>

\* await Patient.findOne({ userId }): the patient document as it is now.
FindPatient(r) ==
    /\ handlers[r].pc = "findPatient"
    /\ handlers' = [handlers EXCEPT
                       ![r] = [@ EXCEPT !.pc = "findDoctor",
                                        !.patient = <<patients[handlers[r].user]>>]]
    /\ UNCHANGED <<availability, appointments, result, now, doctors, patients>>

\* await Doctor.findById(doctorId), then the checks up to the next await.
FindDoctor(r) ==
    LET h == handlers[r]
        doctor == doctors[h.doctorId]
        error == BookDoctorError(doctor, h.consultationType,
                                 h.appointmentDate, now)
    IN  /\ h.pc = "findDoctor"
        /\ IF error # ""
           THEN Respond(r, 400, error)
           ELSE /\ handlers' = [handlers EXCEPT
                                   ![r] = [@ EXCEPT !.pc = "findAvailability",
                                                    !.doctor = <<doctor>>]]
                /\ UNCHANGED result
        /\ UNCHANGED <<availability, appointments, now, doctors, patients>>

\* await Availability.findOne({ doctorId }), then isAvailableAt.
FindAvailability(r) ==
    LET h == handlers[r]
        a == availability[h.doctorId]
        error == BookAvailabilityError(a, h.appointmentDate)
    IN  /\ h.pc = "findAvailability"
        /\ IF error # ""
           THEN Respond(r, 400, error)
           ELSE /\ handlers' = [handlers EXCEPT
                                   ![r] = [@ EXCEPT !.pc = "hasConflict",
                                                    !.availability = <<a>>]]
                /\ UNCHANGED result
        /\ UNCHANGED <<availability, appointments, now, doctors, patients>>

\* await Appointment.hasConflict(...): the query sees the appointments that
\* are stored when it runs.
HasConflict(r) ==
    LET h == handlers[r]
        error == BookConflictError(appointments, h.availability[1],
                                   h.doctorId, h.appointmentDate)
    IN  /\ h.pc = "hasConflict"
        /\ IF error # ""
           THEN Respond(r, 400, error)
           ELSE /\ handlers' = [handlers EXCEPT ![r].pc = "create"]
                /\ UNCHANGED result
        /\ UNCHANGED <<availability, appointments, now, doctors, patients>>

\* await Appointment.create({...}): the document is validated and inserted;
\* a validation error goes to the catch block.
Create(r) ==
    LET h == handlers[r] IN
    /\ h.pc = "create"
    /\ IF CreateValid(h.appointmentDate, now)
       THEN /\ appointments' =
                   Append(appointments,
                          NewAppointment(h.user, h.doctorId, h.appointmentDate,
                                         h.availability[1].slotDuration,
                                         h.consultationType))
            /\ handlers' = [handlers EXCEPT ![r].pc = "incrementPatient"]
            /\ UNCHANGED result
       ELSE /\ Respond(r, 500, "Error booking appointment")
            /\ UNCHANGED appointments
    /\ UNCHANGED <<availability, now, doctors, patients>>

\* await patient.incrementAppointmentCount(): save() writes the count of the
\* document loaded at findPatient, plus one.
IncrementPatient(r) ==
    LET h == handlers[r] IN
    /\ h.pc = "incrementPatient"
    /\ patients' = [patients EXCEPT
                       ![h.user].totalAppointments =
                           incrementAppointmentCount(h.patient[1]).totalAppointments]
    /\ handlers' = [handlers EXCEPT ![r].pc = "incrementDoctor"]
    /\ UNCHANGED <<availability, appointments, result, now, doctors>>

\* await doctor.incrementAppointmentCount(), the populate and the response.
IncrementDoctor(r) ==
    LET h == handlers[r] IN
    /\ h.pc = "incrementDoctor"
    /\ doctors' = [doctors EXCEPT
                      ![h.doctorId].totalAppointments =
                          incrementAppointmentCount(h.doctor[1]).totalAppointments]
    /\ Respond(r, 201, "Appointment booked successfully")
    /\ UNCHANGED <<availability, appointments, now, patients>>

Init ==
    /\ availability = [d \in Doctors |-> createDefault]
    /\ appointments = <<>>
    /\ result = NoResult
    /\ now = At(0, 8, 0)
    /\ doctors = InitDoctors
    /\ patients = InitPatients
    /\ handlers = [r \in 1..MaxRequests |-> Idle]

Next ==
    \/ \E r \in 1..MaxRequests, user \in BookUsers, doctorId \in Doctors,
          appointmentDate \in ConcurrentDates,
          consultationType \in ConcurrentTypes :
          ReceiveBooking(r, user, doctorId, appointmentDate, consultationType)
    \/ \E r \in 1..MaxRequests : FindPatient(r)
    \/ \E r \in 1..MaxRequests : FindDoctor(r)
    \/ \E r \in 1..MaxRequests : FindAvailability(r)
    \/ \E r \in 1..MaxRequests : HasConflict(r)
    \/ \E r \in 1..MaxRequests : Create(r)
    \/ \E r \in 1..MaxRequests : IncrementPatient(r)
    \/ \E r \in 1..MaxRequests : IncrementDoctor(r)

Spec == Init /\ [][Next]_vars

\* One of the two awaited save() calls after Appointment.create rejects (a
\* write the database refuses, a validation error of the loaded document):
\* control passes to the catch block, which answers 500 and undoes nothing.
SaveRejects(r) ==
    /\ handlers[r].pc \in {"incrementPatient", "incrementDoctor"}
    /\ Respond(r, 500, "Error booking appointment")
    /\ UNCHANGED <<availability, appointments, now, doctors, patients>>

NextFailure ==
    \/ Next
    \/ \E r \in 1..MaxRequests : SaveRejects(r)

\* The concurrent bookings over a database whose writes may fail.
SpecFailure == Init /\ [][NextFailure]_vars

\* ---------------------- confirm and cancel requests handled at the same time

MaxTransitions == 2

\* A handler of a confirm or cancel request that has no request yet.
IdleTransition ==
    [pc |-> "idle", op |-> "", user |-> "", id |-> 0, reason |-> "",
     loaded |-> <<>>]

\* Who asks for the cancellation in the race: the patient or the doctor.
RaceCancelUsers == {"p1", "d1"}

\* The handler r sends its response and is finished.
RespondTransition(r, status, message) ==
    /\ result' = [op |-> handlers[r].op,
                  response |-> Response(status, message)]
    /\ handlers' = [handlers EXCEPT ![r].pc = "done"]

\* document.save() after confirm(): the paths confirm() assigned are written
\* to the stored document, the others are left as they are stored.
SaveConfirmed(stored, doc) ==
    [stored EXCEPT !.status = doc.status, !.confirmedAt = doc.confirmedAt,
                   !.confirmedBy = doc.confirmedBy]

\* document.save() after cancel(): the paths cancel() assigned are written.
SaveCancelled(stored, doc) ==
    [stored EXCEPT !.status = doc.status, !.cancelledAt = doc.cancelledAt,
                   !.cancelledBy = doc.cancelledBy,
                   !.cancellationReason = doc.cancellationReason]

\* confirmAppointment is entered.
ReceiveConfirm(r, user, id) ==
    /\ handlers[r].pc = "idle"
    /\ handlers' = [handlers EXCEPT
                       ![r] = [IdleTransition EXCEPT
                                  !.pc = "findById", !.op = "confirmAppointment",
                                  !.user = user, !.id = id]]
    /\ UNCHANGED <<availability, appointments, result, now, doctors, patients>>

\* cancelAppointment is entered: a request without a reason is answered at
\* once.
ReceiveCancel(r, user, id, reason) ==
    /\ handlers[r].pc = "idle"
    /\ IF reason = ""
       THEN /\ result' = [op |-> "cancelAppointment",
                          response |-> Response(400, "Cancellation reason is required")]
            /\ handlers' = [handlers EXCEPT
                               ![r] = [IdleTransition EXCEPT
                                          !.pc = "done",
                                          !.op = "cancelAppointment",
                                          !.user = user, !.id = id]]
       ELSE /\ handlers' = [handlers EXCEPT
                               ![r] = [IdleTransition EXCEPT
                                          !.pc = "findById",
                                          !.op = "cancelAppointment",
                                          !.user = user, !.id = id,
                                          !.reason = reason]]
            /\ UNCHANGED result
    /\ UNCHANGED <<availability, appointments, now, doctors, patients>>

\* await Appointment.findById(req.params.id), in either handler: the
\* appointment as it is stored now.
FindById(r) ==
    LET h == handlers[r] IN
    /\ h.pc = "findById"
    /\ handlers' = [handlers EXCEPT
                       ![r] = [h EXCEPT !.pc = IF h.op = "confirmAppointment"
                                               THEN "findDoctor"
                                               ELSE "findPatient",
                                        !.loaded = <<appointments[h.id]>>]]
    /\ UNCHANGED <<availability, appointments, result, now, doctors, patients>>

\* confirmAppointment: await Doctor.findOne({ userId }), then the checks on
\* the loaded appointment.
ConfirmFindDoctor(r) ==
    LET h == handlers[r]
        x == h.loaded[1]
    IN  /\ h.pc = "findDoctor"
        /\ h.op = "confirmAppointment"
        /\ IF h.user \notin Doctors \/ x.doctorId # h.user
           THEN RespondTransition(r, 403, "Not authorized")
           ELSE IF x.status # "pending"
           THEN RespondTransition(r, 400,
                    "Cannot confirm appointment with status: " \o x.status)
           ELSE /\ handlers' = [handlers EXCEPT ![r].pc = "save"]
                /\ UNCHANGED result
        /\ UNCHANGED <<availability, appointments, now, doctors, patients>>

\* cancelAppointment: await Patient.findOne({ userId }).
CancelFindPatient(r) ==
    /\ handlers[r].pc = "findPatient"
    /\ handlers' = [handlers EXCEPT ![r].pc = "findDoctor"]
    /\ UNCHANGED <<availability, appointments, result, now, doctors, patients>>

\* cancelAppointment: await Doctor.findOne({ userId }), then the checks on
\* the loaded appointment.
CancelFindDoctor(r) ==
    LET h == handlers[r]
        x == h.loaded[1]
    IN  /\ h.pc = "findDoctor"
        /\ h.op = "cancelAppointment"
        /\ IF x.patientId # h.user /\ x.doctorId # h.user
           THEN RespondTransition(r, 403,
                    "Not authorized to cancel this appointment")
           ELSE IF ~canBeCancelled(x, now, NoticeHours)
           THEN RespondTransition(r, 400,
                    "Appointment can only be cancelled at least 24 hours before the scheduled time")
           ELSE /\ handlers' = [handlers EXCEPT ![r].pc = "save"]
                /\ UNCHANGED result
        /\ UNCHANGED <<availability, appointments, now, doctors, patients>>

\* await appointment.confirm(req.user._id) or await appointment.cancel(
\* req.user._id, reason): the method assigns on the loaded document and
\* save() writes the assigned paths; then the response.
SaveTransition(r) ==
    LET h == handlers[r]
        x == h.loaded[1]
    IN  /\ h.pc = "save"
        /\ IF h.op = "confirmAppointment"
           THEN /\ appointments' =
                       [appointments EXCEPT
                           ![h.id] = SaveConfirmed(@, confirm(x, h.user, now))]
                /\ RespondTransition(r, 200, "Appointment confirmed")
           ELSE /\ appointments' =
                       [appointments EXCEPT
                           ![h.id] = SaveCancelled(@, cancel(x, h.user,
                                                            h.reason, now))]
                /\ RespondTransition(r, 200,
                                     "Appointment cancelled successfully")
        /\ UNCHANGED <<availability, now, doctors, patients>>

\* One pending appointment of p1 with d1, 25 hours ahead, and no request yet.
InitRace ==
    /\ availability = [d \in Doctors |-> createDefault]
    /\ appointments = <<NewAppointment("p1", "d1", At(1, 9, 0),
                                       DefaultSlotDuration, "video")>>
    /\ doctors = [InitDoctors EXCEPT !["d1"].totalAppointments = @ + 1]
    /\ patients = [InitPatients EXCEPT !["p1"].totalAppointments = @ + 1]
    /\ result = NoResult
    /\ now = At(0, 8, 0)
    /\ handlers = [r \in 1..MaxTransitions |-> IdleTransition]

NextRace ==
    \/ \E r \in 1..MaxTransitions, user \in Doctors, id \in DOMAIN appointments :
          ReceiveConfirm(r, user, id)
    \/ \E r \in 1..MaxTransitions, user \in RaceCancelUsers,
          id \in DOMAIN appointments, reason \in Reasons :
          ReceiveCancel(r, user, id, reason)
    \/ \E r \in 1..MaxTransitions : FindById(r)
    \/ \E r \in 1..MaxTransitions : ConfirmFindDoctor(r)
    \/ \E r \in 1..MaxTransitions : CancelFindPatient(r)
    \/ \E r \in 1..MaxTransitions : CancelFindDoctor(r)
    \/ \E r \in 1..MaxTransitions : SaveTransition(r)

SpecRace == InitRace /\ [][NextRace]_vars

\* ================================================================== claims

\* --------------------------------------------------------- conflict claims

\* Half-open interval overlap of [s1, e1) and [s2, e2).
Overlap(s1, e1, s2, e2) == s1 < e2 /\ s2 < e1

EndOf(x) == x.appointmentDate + x.duration * MsPerMinute

\* The stored appointments of the asked doctor that are not in a terminal
\* state and overlap the candidate of the last hasConflict call.
OverlappingActive ==
    {i \in 1..Len(appointments) :
        /\ appointments[i].doctorId = result.doctorId
        /\ appointments[i].status \in {"pending", "confirmed", "in-progress"}
        /\ Overlap(result.appointmentDate, EndOf(result),
                   appointments[i].appointmentDate, EndOf(appointments[i]))}

\* C3: hasConflict returns true whenever some stored appointment of the
\* doctor with status pending, confirmed or in-progress overlaps the
\* candidate interval (s1 < e2 and s2 < e1): no overlap is missed.
C3_NoOverlapMissed ==
    (result.op = "hasConflict" /\ OverlappingActive # {}) => result.value

\* C3 witness: a candidate lying strictly inside a pending appointment of the
\* doctor was reported as a conflict.
C3_Witness ==
    /\ result.op = "hasConflict"
    /\ result.value
    /\ \E i \in 1..Len(appointments) :
          /\ appointments[i].doctorId = result.doctorId
          /\ appointments[i].status = "pending"
          /\ appointments[i].appointmentDate < result.appointmentDate
          /\ EndOf(result) < EndOf(appointments[i])

\* C4: hasConflict returns false when the candidate overlaps no non-terminal
\* appointment of the doctor, also when it only touches one at an endpoint
\* (it ends where another begins, or begins where another ends).
C4_TouchingIsNoConflict ==
    (result.op = "hasConflict" /\ OverlappingActive = {}) => ~result.value

\* C5: conflict detection is symmetric: with a store holding one non-terminal
\* appointment B of the doctor, asking for candidate A gives the answer that
\* asking for candidate B against a store holding only A gives.
C5_Symmetric ==
    (/\ result.op = "hasConflict"
     /\ Len(appointments) = 1
     /\ appointments[1].doctorId = result.doctorId
     /\ appointments[1].status \in {"pending", "confirmed", "in-progress"})
    => result.value =
         hasConflict(<<[appointments[1] EXCEPT
                           !.appointmentDate = result.appointmentDate,
                           !.duration = result.duration]>>,
                     result.doctorId, appointments[1].appointmentDate,
                     appointments[1].duration, 0)

IsRelevant(x) ==
    /\ x.doctorId = result.doctorId
    /\ x.status \in {"pending", "confirmed", "in-progress"}

\* C6: the answer of hasConflict depends only on the doctor's appointments
\* with status pending, confirmed or in-progress: it is the answer given for
\* the store with every other appointment removed.
C6_OnlyActiveOfDoctor ==
    result.op = "hasConflict" =>
        result.value =
            hasConflict(SelectSeq(appointments, IsRelevant), result.doctorId,
                        result.appointmentDate, result.duration, 0)

\* C6 witness: the store holds an overlapping appointment in a terminal state
\* and an overlapping appointment of another doctor, and no conflict was
\* reported.
C6_Witness ==
    /\ result.op = "hasConflict"
    /\ ~result.value
    /\ \E i, j \in 1..Len(appointments) :
          /\ appointments[i].doctorId = result.doctorId
          /\ appointments[i].status \in {"completed", "cancelled", "no-show"}
          /\ Overlap(result.appointmentDate, EndOf(result),
                     appointments[i].appointmentDate, EndOf(appointments[i]))
          /\ appointments[j].doctorId # result.doctorId
          /\ appointments[j].status = "confirmed"
          /\ Overlap(result.appointmentDate, EndOf(result),
                     appointments[j].appointmentDate, EndOf(appointments[j]))

\* --------------------------------------------------------- schedule claims

TheSchedule == availability[TheDoctor]

\* The slot list of a date, as minutes since midnight.
SlotMinutes(date) ==
    LET slots == getAvailableSlotsForDate(TheSchedule, date)
    IN  [i \in 1..Len(slots) |-> TimeStringToMinutes(slots[i])]

\* Some block of the day is an all-day block.
AllDayBlocked(a, day) ==
    \E i \in 1..Len(a.blockedDates) :
        DayOf(a.blockedDates[i].date) = day /\ a.blockedDates[i].allDay

\* The times of day the partial blocks of the day list.
PartiallyBlockedTimes(a, day) ==
    UNION {a.blockedDates[i].blockedSlots :
              i \in {j \in 1..Len(a.blockedDates) :
                        /\ DayOf(a.blockedDates[j].date) = day
                        /\ ~a.blockedDates[j].allDay}}

\* The date overrides of the day, in their stored order.
OverridesOf(a, day) ==
    LET OnDay(c) == DayOf(c.date) = day
    IN  SelectSeq(a.customAvailableDates, OnDay)

\* The weekly entries of the day's weekday, in their stored order.
WeeklyOf(a, day) ==
    LET OnDay(e) == e.day = WeekDays[(day % 7) + 1]
    IN  SelectSeq(a.weeklySchedule, OnDay)

\* The time ranges in effect on a day that is not blocked all day: those of
\* the date override if there is one, else those of the weekday's entry if it
\* is marked available.
EffectiveRanges(a, day) ==
    IF OverridesOf(a, day) # <<>> THEN OverridesOf(a, day)[1].timeSlots
    ELSE IF WeeklyOf(a, day) # <<>> /\ WeeklyOf(a, day)[1].isAvailable
         THEN WeeklyOf(a, day)[1].timeSlots
    ELSE <<>>

\* The slot starts of one range, in minutes: s + k * (slotDuration +
\* bufferTime) for every k >= 0 with s + k * step + slotDuration <= e.
GridOfRange(a, range) ==
    LET s == TimeStringToMinutes(range.startTime)
        e == TimeStringToMinutes(range.endTime)
        step == a.slotDuration + a.bufferTime
        count == IF e - s < a.slotDuration THEN 0
                 ELSE ((e - s - a.slotDuration) \div step) + 1
    IN  [k \in 1..count |-> s + (k - 1) * step]

RECURSIVE GridOfRanges(_, _)
GridOfRanges(a, ranges) ==
    IF ranges = <<>> THEN <<>>
    ELSE GridOfRange(a, Head(ranges)) \o GridOfRanges(a, Tail(ranges))

\* The grid of the ranges without the partially blocked times of the day.
ExpectedSlotMinutes(a, day, ranges) ==
    LET Free(m) == MinutesToTimeString(m) \notin PartiallyBlockedTimes(a, day)
    IN  SelectSeq(GridOfRanges(a, ranges), Free)

\* C7: for every schedule the Availability model accepts and every date, the
\* slot list is strictly increasing in start time and the slots
\* [t, t + slotDuration) are pairwise non-overlapping.
C7_SlotsIncreasingDisjoint ==
    \A date \in SlotDates :
        LET m == SlotMinutes(date) IN
        /\ \A i \in 1..(Len(m) - 1) : m[i] < m[i + 1]
        /\ \A i, j \in 1..Len(m) :
              i # j => ~Overlap(m[i], m[i] + TheSchedule.slotDuration,
                                m[j], m[j] + TheSchedule.slotDuration)

\* C8: every returned slot start t lies, with its whole duration, inside one
\* time range of the source in effect for the date (the date override if one
\* exists, else the weekly entry of the weekday), and t is not a blocked
\* time of a partial block of that date.
C8_SlotsInsideEffectiveRange ==
    \A date \in SlotDates :
        LET m == SlotMinutes(date)
            ranges == EffectiveRanges(TheSchedule, DayOf(date))
        IN  \A i \in 1..Len(m) :
               /\ \E r \in 1..Len(ranges) :
                     /\ TimeStringToMinutes(ranges[r].startTime) <= m[i]
                     /\ m[i] + TheSchedule.slotDuration
                            <= TimeStringToMinutes(ranges[r].endTime)
               /\ MinutesToTimeString(m[i])
                     \notin PartiallyBlockedTimes(TheSchedule, DayOf(date))

\* C8 witness: a call returned slots for a date that has a date override and
\* a partial block, from a schedule whose slots do not fill the range.
C8_Witness ==
    /\ result.op = "getAvailableSlotsForDate"
    /\ result.slots # <<>>
    /\ OverridesOf(TheSchedule, DayOf(result.date)) # <<>>
    /\ PartiallyBlockedTimes(TheSchedule, DayOf(result.date)) # {}
    /\ TheSchedule.slotDuration = 45
    /\ TheSchedule.bufferTime = 10

\* C9: on a date that is not blocked all day the slot list is exactly, range
\* by range in order, the grid s + k * (slotDuration + bufferTime) with
\* s + k * (slotDuration + bufferTime) + slotDuration <= e, without the
\* blocked times of the date's partial blocks; no other slot moves or goes.
C9_ExactSlotGrid ==
    \A date \in SlotDates :
        ~AllDayBlocked(TheSchedule, DayOf(date)) =>
            SlotMinutes(date) =
                ExpectedSlotMinutes(TheSchedule, DayOf(date),
                                    EffectiveRanges(TheSchedule, DayOf(date)))

\* C9 witness: Monday 09:00-12:00, slot duration 30, buffer 0, with 10:00
\* blocked: the call returned the five slots 09:00, 09:30, 10:30, 11:00, 11:30.
C9_Witness ==
    /\ result.op = "getAvailableSlotsForDate"
    /\ TheSchedule.weeklySchedule[1].timeSlots =
           <<[startTime |-> HM(9, 0), endTime |-> HM(12, 0)]>>
    /\ TheSchedule.slotDuration = 30
    /\ TheSchedule.bufferTime = 0
    /\ PartiallyBlockedTimes(TheSchedule, DayOf(result.date)) = {HM(10, 0)}
    /\ result.slots = <<HM(9, 0), HM(9, 30), HM(10, 30), HM(11, 0), HM(11, 30)>>

\* Whether a time of day lies in one of the ranges, start included, end not.
InRanges(timeString, ranges) ==
    \E r \in 1..Len(ranges) :
        /\ TimeStringToMinutes(ranges[r].startTime)
               <= TimeStringToMinutes(timeString)
        /\ TimeStringToMinutes(timeString)
               < TimeStringToMinutes(ranges[r].endTime)

\* C10: precedence is blocked > override > weekly pattern in isAvailableAt and
\* in getAvailableSlotsForDate: an all-day block makes the whole date
\* unavailable, override or not; otherwise the override's ranges are the only
\* source if the date has one (the weekly entry is ignored, also an
\* unavailable one, also for an override without ranges); otherwise the
\* weekly entry applies.
C10_Precedence ==
    /\ \A date \in SlotDates :
          LET day == DayOf(date)
              slots == SlotMinutes(date)
          IN  IF AllDayBlocked(TheSchedule, day) THEN slots = <<>>
              ELSE IF OverridesOf(TheSchedule, day) # <<>>
                   THEN slots = ExpectedSlotMinutes(TheSchedule, day,
                                   OverridesOf(TheSchedule, day)[1].timeSlots)
              ELSE IF WeeklyOf(TheSchedule, day) # <<>>
                         /\ WeeklyOf(TheSchedule, day)[1].isAvailable
                   THEN slots = ExpectedSlotMinutes(TheSchedule, day,
                                   WeeklyOf(TheSchedule, day)[1].timeSlots)
              ELSE slots = <<>>
    /\ \A dateTime \in CheckInstants :
          LET day == DayOf(dateTime)
              timeString == MinutesToTimeString(MinuteOfDay(dateTime))
              open == timeString \notin PartiallyBlockedTimes(TheSchedule, day)
              value == isAvailableAt(TheSchedule, dateTime)
          IN  IF AllDayBlocked(TheSchedule, day) THEN ~value
              ELSE IF OverridesOf(TheSchedule, day) # <<>>
                   THEN value = (open /\ InRanges(timeString,
                                   OverridesOf(TheSchedule, day)[1].timeSlots))
              ELSE IF WeeklyOf(TheSchedule, day) # <<>>
                         /\ WeeklyOf(TheSchedule, day)[1].isAvailable
                   THEN value = (open /\ InRanges(timeString,
                                   WeeklyOf(TheSchedule, day)[1].timeSlots))
              ELSE ~value

\* C10 witness: the date has an all-day block and an override whose range
\* holds the asked time, and isAvailableAt answered false.
C10_Witness ==
    /\ result.op = "isAvailableAt"
    /\ ~result.value
    /\ AllDayBlocked(TheSchedule, DayOf(result.dateTime))
    /\ OverridesOf(TheSchedule, DayOf(result.dateTime)) # <<>>
    /\ InRanges(MinutesToTimeString(MinuteOfDay(result.dateTime)),
                OverridesOf(TheSchedule, DayOf(result.dateTime))[1].timeSlots)

\* ---------------------------------------------------------- booking claims

\* The stored appointments i and j are of one doctor, both pending, confirmed
\* or in progress, and their intervals overlap.
DoubleBooked(i, j) ==
    /\ i # j
    /\ appointments[i].doctorId = appointments[j].doctorId
    /\ appointments[i].status \in ActiveStatuses
    /\ appointments[j].status \in ActiveStatuses
    /\ Overlap(appointments[i].appointmentDate, EndOf(appointments[i]),
               appointments[j].appointmentDate, EndOf(appointments[j]))

\* The appointments that were stored before the last bookAppointment
\* request was handled: all of them, or all but the one it appended.
StoredBefore ==
    IF result.response.status = 201
    THEN 1..(Len(appointments) - 1)
    ELSE 1..Len(appointments)

\* The last bookAppointment request asked for an interval that overlaps a
\* pending, confirmed or in-progress appointment of the doctor stored before.
OverlapsStored ==
    \E i \in StoredBefore :
        /\ appointments[i].doctorId = result.doctorId
        /\ appointments[i].status \in ActiveStatuses
        /\ Overlap(result.appointmentDate,
                   result.appointmentDate
                       + availability[result.doctorId].slotDuration * MsPerMinute,
                   appointments[i].appointmentDate, EndOf(appointments[i]))

\* C1: however concurrent bookAppointment requests interleave, no state has
\* two pending, confirmed or in-progress appointments of one doctor whose
\* intervals [appointmentDate, appointmentDate + duration) overlap.
C1_NoDoubleBookingConcurrent ==
    \A i, j \in 1..Len(appointments) : ~DoubleBooked(i, j)

\* C2: with the requests handled one at a time, a booking that overlaps a
\* stored pending, confirmed or in-progress appointment of the doctor is
\* answered with a 400, and no two such appointments of one doctor ever
\* overlap.
C2_OverlappingBookingRejected ==
    /\ \A i, j \in 1..Len(appointments) : ~DoubleBooked(i, j)
    /\ (result.op = "bookAppointment" /\ OverlapsStored)
          => result.response.status = 400

\* A booking at nine was turned down as already booked while a confirmed
\* appointment that starts a quarter of an hour later is stored, next to a
\* second appointment.
C2_Witness ==
    /\ result = BookResult("p1", "d1", At(1, 9, 0), "video",
                           Response(400, "This time slot is already booked. Please choose another time."))
    /\ OverlapsStored
    /\ Len(appointments) = 2
    /\ \E i \in 1..Len(appointments) :
          /\ appointments[i].status = "confirmed"
          /\ appointments[i].appointmentDate = At(1, 9, 15)

\* ------------------------------------------------------- controller claims

\* C11: a getAvailableSlots call changes no schedule, appointment or counter,
\* and a call that directly follows a call for the same doctor and date
\* answers with the same slots in the same order.
C11_GetAvailableSlotsIdempotent ==
    [][result'.op = "getAvailableSlots"
         => /\ UNCHANGED <<availability, appointments, doctors, patients>>
            /\ (/\ result.op = "getAvailableSlots"
                /\ result.doctorId = result'.doctorId
                /\ result.date = result'.date)
                  => result' = result]_vars

\* The slots of the Tuesday were asked for while a pending appointment at
\* nine is stored: the answer leaves nine out and starts at half past nine.
C11_Witness ==
    /\ result.op = "getAvailableSlots"
    /\ result.date = At(1, 8, 0)
    /\ \E i \in 1..Len(appointments) :
          /\ appointments[i].status = "pending"
          /\ appointments[i].appointmentDate = At(1, 9, 0)
    /\ result.totalSlots = 12
    /\ result.availableSlots = 11
    /\ result.slots[1] = HM(9, 30)

\* -------------------------------------------------------- lifecycle claims

\* The notice the cancellation policy asks for, in milliseconds.
NoticeMs == NoticeHours * MinutesPerHour * MsPerMinute

TerminalStatuses == {"completed", "cancelled", "no-show"}

\* C12: an appointment becomes confirmed only from pending, in a step of
\* confirmAppointment or of the payment webhook that stamps confirmedAt with
\* the clock and confirmedBy with the actor; a confirmAppointment request on
\* an appointment that is not pending gets an error and changes nothing.
C12_ConfirmOnlyFromPending ==
    [][\A id \in DOMAIN appointments :
          /\ (appointments'[id].status = "confirmed"
                  /\ appointments[id].status # "confirmed")
                => /\ appointments[id].status = "pending"
                   /\ result'.op \in {"confirmAppointment", "paystackWebhook"}
                   /\ appointments'[id].confirmedAt = <<now>>
                   /\ appointments'[id].confirmedBy
                         = IF result'.op = "confirmAppointment"
                           THEN <<appointments[id].doctorId>>
                           ELSE <<appointments[id].patientId>>
          /\ \A user \in Doctors :
                (ConfirmAppointment(user, id)
                    /\ appointments[id].status # "pending")
                  => /\ result'.response.status \in {400, 403}
                     /\ appointments' = appointments]_vars

\* The doctor's confirmAppointment confirmed the pending appointment at the
\* instant 24 hours before it.
C12_Witness ==
    /\ result = [op |-> "confirmAppointment",
                 response |-> Response(200, "Appointment confirmed")]
    /\ appointments[1].status = "confirmed"
    /\ appointments[1].confirmedAt = <<At(0, 9, 0)>>
    /\ appointments[1].confirmedBy = <<"d1">>

\* C13: a cancelAppointment request is answered 200 only for an appointment
\* that is pending or confirmed; for an appointment in any other status it
\* gets an error and changes nothing.
C13_CancelOnlyFromPendingOrConfirmed ==
    [][\A id \in DOMAIN appointments :
          \A user \in LifeCancelUsers, reason \in Reasons :
             CancelAppointment(user, id, reason)
               => IF appointments[id].status \in {"pending", "confirmed"}
                  THEN result'.response.status = 200
                         => /\ appointments'[id].status = "cancelled"
                            /\ appointments'[id].cancellationReason
                                  = <<reason>>
                  ELSE /\ result'.response.status = 400
                          \/ result'.response.status = 403
                       /\ appointments' = appointments]_vars

\* The patient asked, 25 hours ahead and with a reason, to cancel an
\* appointment that is in progress, and was turned down.
C13_Witness ==
    /\ result = [op |-> "cancelAppointment",
                 response |-> Response(400, "Appointment can only be cancelled at least 24 hours before the scheduled time")]
    /\ now = At(0, 8, 0)
    /\ appointments[1].status = "in-progress"
    /\ appointments[1].cancelledAt = <<>>

\* C14: a cancelAppointment request of the patient, with a reason, is turned
\* down and changes nothing when less than 24 hours remain before
\* appointmentDate, and cancels a pending or confirmed appointment when 24
\* hours or more remain, 24 hours to the millisecond included.
C14_PatientNoticeBoundary ==
    [][\A id \in DOMAIN appointments :
          CancelAppointment(appointments[id].patientId, id, "changed plans")
            => IF appointments[id].appointmentDate - now < NoticeMs
               THEN /\ result'.response.status = 400
                    /\ appointments' = appointments
               ELSE appointments[id].status \in {"pending", "confirmed"}
                      => /\ result'.response.status = 200
                         /\ appointments'[id].status = "cancelled"]_vars

\* The patient cancelled the appointment exactly 24 hours before it.
C14_Witness ==
    /\ result = [op |-> "cancelAppointment",
                 response |-> Response(200, "Appointment cancelled successfully")]
    /\ appointments[1].status = "cancelled"
    /\ appointments[1].cancelledBy = <<"p1">>
    /\ appointments[1].cancelledAt = <<appointments[1].appointmentDate - NoticeMs>>

\* C15: a cancelAppointment request of an administrator, with a reason, on a
\* pending or confirmed appointment less than 24 hours ahead is accepted and
\* the appointment becomes cancelled.
C15_AdministratorCancels ==
    [][\A id \in DOMAIN appointments :
          (/\ CancelAppointment("admin", id, "changed plans")
           /\ appointments[id].status \in {"pending", "confirmed"}
           /\ appointments[id].appointmentDate > now
           /\ appointments[id].appointmentDate - now < NoticeMs)
            => /\ result'.response.status = 200
               /\ appointments'[id].status = "cancelled"]_vars

\* C16: complete called on an appointment that is neither in progress nor
\* confirmed is rejected: status and completedAt stay as they are.
C16_CompleteRejectedUnlessStarted ==
    [][\A id \in DOMAIN appointments :
          (CallComplete(id)
              /\ appointments[id].status \notin {"in-progress", "confirmed"})
            => /\ appointments'[id].status = appointments[id].status
               /\ appointments'[id].completedAt
                     = appointments[id].completedAt]_vars

\* C17: once an appointment is completed, cancelled or no-show, no step
\* changes its status.
C17_TerminalIsPermanent ==
    [][\A id \in DOMAIN appointments :
          appointments[id].status \in TerminalStatuses
            => appointments'[id].status = appointments[id].status]_vars

\* C18: however a confirm and a cancel of one pending appointment interleave,
\* the stored appointment is never confirmed while carrying cancelledAt,
\* cancelledBy and cancellationReason, and is never cancelled without them.
C18_ConfirmCancelSerializable ==
    \A id \in DOMAIN appointments :
        LET x == appointments[id]
            stamped == /\ x.cancelledAt # <<>>
                       /\ x.cancelledBy # <<>>
                       /\ x.cancellationReason # <<>>
        IN  /\ x.status = "confirmed" => ~stamped
            /\ x.status = "cancelled" => stamped

\* --------------------------------------------------------- booking order

\* C19: bookAppointment reports the first failing precondition in the order
\* future instant, offered consultation type, isAvailableAt, hasConflict: a
\* request to a verified doctor for an instant that is not in the future is
\* answered with the error about the instant, whatever else is wrong with it.
C19_FutureCheckedFirst ==
    (/\ result.op = "bookAppointment"
     /\ doctors[result.doctorId].verificationStatus = "verified"
     /\ result.appointmentDate <= now)
      => result.response
           = Response(400, "Appointment date must be in the future")

\* C20: a bookAppointment request that passes every check is answered 201,
\* and a step answered 201 appends exactly one appointment, pending, unstamped
\* and with the requested doctor, patient and instant, adds one to the
\* doctor's and to the patient's totalAppointments, and changes nothing else.
C20_BookingCreatesOnePending ==
    [][result'.op = "bookAppointment"
         => LET user == result'.user
                doctorId == result'.doctorId
                n == Len(appointments)
            IN  /\ (/\ doctors[doctorId].verificationStatus = "verified"
                    /\ result'.consultationType
                          \in doctors[doctorId].consultationTypes
                    /\ result'.appointmentDate > now
                    /\ isAvailableAt(availability[doctorId],
                                     result'.appointmentDate)
                    /\ ~hasConflict(appointments, doctorId,
                                    result'.appointmentDate,
                                    availability[doctorId].slotDuration, 0))
                     => result'.response.status = 201
                /\ result'.response.status = 201
                     => /\ appointments' =
                              Append(appointments,
                                     NewAppointment(user, doctorId,
                                         result'.appointmentDate,
                                         availability[doctorId].slotDuration,
                                         result'.consultationType))
                        /\ appointments'[n + 1].status = "pending"
                        /\ doctors' =
                              [doctors EXCEPT
                                  ![doctorId].totalAppointments = @ + 1]
                        /\ patients' =
                              [patients EXCEPT
                                  ![user].totalAppointments = @ + 1]
                        /\ UNCHANGED <<availability, now>>]_vars

\* The second booking was accepted: two appointments are stored, the new one
\* pending, and both documents count two.
C20_Witness ==
    /\ result.op = "bookAppointment"
    /\ result.response.status = 201
    /\ Len(appointments) = 2
    /\ appointments[2].status = "pending"
    /\ appointments[2].appointmentDate = result.appointmentDate
    /\ doctors["d1"].totalAppointments = 2
    /\ patients["p1"].totalAppointments = 2

\* C21: whenever bookAppointment answers with an error, a rejection or a
\* failure response, the request has created no appointment and has changed
\* neither appointment counter.  A handler that has passed Appointment.create
\* (it waits at one of the two increments) has created its appointment, so it
\* must not finish with anything but 201.
C21_ErrorLeavesNothing ==
    [][\A r \in 1..MaxRequests :
          (/\ handlers[r].pc \in {"incrementPatient", "incrementDoctor"}
           /\ handlers'[r].pc = "done")
          => result'.response.status = 201]_vars

\* The ranges are well formed: each starts before it ends, and each starts no
\* earlier than the one before it ends.
RangesInOrder(ranges) ==
    /\ \A r \in 1..Len(ranges) :
          StrLess(ranges[r].startTime, ranges[r].endTime)
    /\ \A r \in 1..(Len(ranges) - 1) :
          StrGeq(ranges[r + 1].startTime, ranges[r].endTime)

\* C22: for any two consecutive slots generated for a date, in the same time
\* range or in different ones, the later starts no earlier than the earlier's
\* start plus slotDuration plus bufferTime.  Stated for the dates whose
\* effective ranges are in order and do not overlap.
C22_BufferBetweenConsecutiveSlots ==
    \A date \in SlotDates :
        LET m == SlotMinutes(date) IN
        RangesInOrder(EffectiveRanges(TheSchedule, DayOf(date)))
        => \A i \in 1..(Len(m) - 1) :
              m[i + 1] >= m[i] + TheSchedule.slotDuration
                               + TheSchedule.bufferTime

\* C23: startConsultation moves an appointment to in-progress only from
\* confirmed; called in any other status it is rejected and the status stays
\* as it is.
C23_StartOnlyFromConfirmed ==
    [][\A id \in DOMAIN appointments :
          (CallStartConsultation(id)
              /\ appointments[id].status # "confirmed")
            => appointments'[id].status = appointments[id].status]_vars

\* C24: markNoShow sets no-show only on a confirmed appointment whose
\* appointmentDate is in the past; on any other appointment it is rejected
\* and the status stays as it is.
C24_NoShowOnlyConfirmedPast ==
    [][\A id \in DOMAIN appointments :
          (CallMarkNoShow(id)
              /\ ~(/\ appointments[id].status = "confirmed"
                   /\ appointments[id].appointmentDate < now))
            => appointments'[id].status = appointments[id].status]_vars

\* C25: the reminder sweep is idempotent.  Once markReminderSent has run for
\* an appointment its reminderSent stays true, getNeedingReminders does not
\* return it again, and so the sweep (the query, then markReminderSent on each
\* result) never marks an appointment that is already marked.
C25_ReminderSweepIdempotent ==
    [][/\ \A id \in DOMAIN appointments :
             appointments[id].reminderSent => appointments'[id].reminderSent
       /\ result'.op = "getNeedingReminders"
             => \A i \in DOMAIN result'.ids :
                   ~appointments[result'.ids[i]].reminderSent
       /\ (result'.op = "markReminderSent" /\ result' # result)
             => ~appointments[result'.id].reminderSent]_vars

\* C25 witness: the sweep's query has run again on an appointment that is
\* marked, still pending or confirmed and still inside the thirty minutes.
C25_Witness ==
    /\ result.op = "getNeedingReminders"
    /\ \E id \in DOMAIN appointments :
          /\ appointments[id].reminderSent
          /\ appointments[id].status \in {"pending", "confirmed"}
          /\ appointments[id].appointmentDate >= now
          /\ appointments[id].appointmentDate
                <= now + ReminderWindowMinutes * MsPerMinute
          /\ appointments[id].reminderSentAt[1] < now

\* The instant a slot of a date stands for.
SlotInstant(date, slot) ==
    StartOfDay(date) + TimeStringToMinutes(slot) * MsPerMinute

\* C26: every slot getAvailableSlots returns for a date ahead can be booked
\* with nothing changed in between: bookAppointment's availability check and
\* its conflict check both pass at the slot's instant, whatever appointments
\* the doctor has that day.
C26_ListedSlotIsBookable ==
    result.op = "getAvailableSlots"
    => \A i \in DOMAIN result.slots :
          LET t == SlotInstant(result.date, result.slots[i])
              a == availability[result.doctorId]
          IN  t > now
              => /\ BookAvailabilityError(a, t) = ""
                 /\ BookConflictError(appointments, a, result.doctorId, t) = ""

\* C27: the slot generator and the availability oracle agree: isAvailableAt
\* is true at the instant of every slot getAvailableSlotsForDate returns for
\* a date.  Hence a date on which isAvailableAt is false at every instant has
\* no slot.
C27_SlotsAreAvailable ==
    \A date \in SlotDates :
        LET slots == getAvailableSlotsForDate(TheSchedule, date) IN
        \A i \in DOMAIN slots :
            isAvailableAt(TheSchedule, SlotInstant(date, slots[i]))

\* C27 witness: a call returned slots for a date that has a partial block,
\* one of whose blocked times lies on the slot grid of the date's ranges.
C27_Witness ==
    /\ result.op = "getAvailableSlotsForDate"
    /\ result.slots # <<>>
    /\ \E t \in PartiallyBlockedTimes(TheSchedule, DayOf(result.date)) :
          \E i \in DOMAIN GridOfRanges(TheSchedule,
                              EffectiveRanges(TheSchedule, DayOf(result.date))) :
             GridOfRanges(TheSchedule,
                 EffectiveRanges(TheSchedule, DayOf(result.date)))[i]
                 = TimeStringToMinutes(t)

\* C28: every appointment bookAppointment created occupies
\* [appointmentDate, appointmentDate + duration) entirely inside one time
\* range in effect for its date in the doctor's schedule.
C28_BookedInsideOneRange ==
    \A id \in DOMAIN appointments :
        LET x == appointments[id]
            start == MinuteOfDay(x.appointmentDate)
            ranges == EffectiveRanges(availability[x.doctorId],
                                      DayOf(x.appointmentDate))
        IN  \E r \in DOMAIN ranges :
               /\ TimeStringToMinutes(ranges[r].startTime) <= start
               /\ start + x.duration
                      <= TimeStringToMinutes(ranges[r].endTime)

\* The appointments stored for a doctor, and for a patient.
AppointmentsOfDoctor(d) ==
    {i \in DOMAIN appointments : appointments[i].doctorId = d}
AppointmentsOfPatient(p) ==
    {i \in DOMAIN appointments : appointments[i].patientId = p}

\* C29: once every bookAppointment request has finished, concurrent ones for
\* the same doctor and patient included, each totalAppointments equals its
\* value before the requests (zero) plus the number of appointments created
\* for that doctor or patient: no increment is lost.  Stated for the outcomes
\* without a double booking.
C29_NoIncrementLost ==
    (/\ \A r \in 1..MaxRequests : handlers[r].pc \in {"idle", "done"}
     /\ \A i, j \in DOMAIN appointments : ~DoubleBooked(i, j))
    => /\ \A d \in Doctors :
             doctors[d].totalAppointments
                 = Cardinality(AppointmentsOfDoctor(d))
       /\ \A p \in Patients :
             patients[p].totalAppointments
                 = Cardinality(AppointmentsOfPatient(p))

\* C30: in every reachable state the stamps of an appointment match its
\* status: a confirmed appointment has confirmedAt and confirmedBy set, a
\* cancelled one has cancelledAt and cancelledBy set and a cancellationReason
\* that is not empty, a completed one has completedAt set.
C30_StampsMatchStatus ==
    \A id \in DOMAIN appointments :
        LET x == appointments[id] IN
        /\ x.status = "confirmed"
              => x.confirmedAt # <<>> /\ x.confirmedBy # <<>>
        /\ x.status = "cancelled"
              => /\ x.cancelledAt # <<>>
                 /\ x.cancelledBy # <<>>
                 /\ x.cancellationReason # <<>>
                 /\ x.cancellationReason[1] # ""
        /\ x.status = "completed" => x.completedAt # <<>>

====
